---- MODULE Spec2Model ----
(***************************************************************************)
(* Selective hierarchical disclosure in the IFC viewer.                    *)
(*                                                                         *)
(* The tree view (bim-table) holds a forest of groups.  A group is         *)
(* materialized when it is a root of the table data or when its parent is  *)
(* materialized with childrenHidden = false.  The model keeps the table's  *)
(* data, its global 'expanded' flag and the set of materialized groups     *)
(* whose children are visible, and runs the walks of the repository on it, *)
(* one step per loop iteration between two awaits.                         *)
(*                                                                         *)
(* Rendering is taken to have settled when the awaited update and delay    *)
(* of a step have passed, as the code and its notes assume.                *)
(***************************************************************************)
EXTENDS Integers, Sequences, FiniteSets, TLC

\* ------------------------------------------------------------------ bounds
MaxNodes == 5
MaxNamedNodes == 4
MaxDepthArg == 2
MaxOps == 2
MaxTreeNodes == 3
MaxModels == 2
MaxItemId == 1
MaxRegistrations == 3
MaxSelections == 2
MaxEvents == 3
MaxLoads == 3
MaxRatio == 1
MaxItemActions == 2

\* ------------------------------------------------------- program constants
DataWaitAttempts == 50
RootWaitAttempts == 40
ChildWaitAttempts == 40

StoreyName == "IFCBUILDINGSTOREY"
OtherTypeName == "IFCWALL"
InstanceName == "Nivel 1"
EmptyName == ""
NonStringName == "#42"

VARIABLES
    depthOf,        \* table.data as the depth of each group, in document order
    nameOf,         \* the Name carried by each group's data
    expanded,       \* table.expanded
    open,           \* materialized groups with childrenHidden = false
    kind,           \* the operation in progress, "none" when there is none
    pc,             \* its position
    maxDepth,       \* its maxDepth argument
    depthArg,       \* the depth argument of its first call
    stack,          \* the frames of the recursive walk, innermost last
    attempts,       \* the counter of the polling loop
    found,          \* the value returned by the top-level predicate walk
    toggled,        \* the toggleChildren calls of the operation, in order
    visited,        \* the groups the operation has inspected, in order
    startOpen,      \* 'open' when the operation started
    startExpanded,  \* table.expanded when the operation started
    everShown,      \* groups materialized at some point of the operation
    storeyDisabled, \* expandStoreyButton.disabled
    running,        \* number of expandToStoreyLevel promises not yet settled
    outcome,        \* how the last promise settled
    noBoundary,     \* groups whose nested rendering boundary is absent
    ops,            \* the Expand All / Collapse All calls not yet settled
    last,           \* the table as the first of two successive walks left it
    call,           \* a call of a pure helper: its argument and its result
    processedModels,      \* the module-level Set of model ids
    classifierSelections, \* the module-level Map: label -> ModelIdMap object
    maps,                 \* the ModelIdMap objects: model id -> Set object
    sets,                 \* the Set objects: their ids
    classifierGroups,     \* the classifier's own group data, by label
    finderQueryRegistry,  \* the module-level Map of finder queries (labels)
    classifierItems,      \* the toolbar's classifier menu (labels)
    finderItems,          \* the toolbar's finder menu (labels)
    viewItems,            \* the models whose storey views the toolbar lists
    registrations,        \* the registerModelTools calls at an await
    started,              \* number of registerModelTools calls made
    setups,               \* set-up runs begun, by model id
    itemsSeen,            \* ids getItemsOfCategories returned, by model, label
    isolated,             \* the ModelIdMap object handed to hider.isolate
    timers,               \* the pending timeouts of the selection handler
    propertiesUpdateTimer, \* the id of the handler's timeout, or none
    tableSelection,       \* the selection the properties table was given
    events,               \* number of selection events so far
    burst,                \* the burst of highlight events in progress
    staleShown,           \* the table got a selection older than a clear
    statusMessage,        \* the status line
    busy,                 \* the guard of queue
    controls,             \* sampleButton.disabled and fileInput.disabled
    progress,             \* the progress bar: hidden and value
    tasks,                \* the calls of queue: trigger, position, promise
    currentMenu,          \* the toolbar's open menu, or none
    popupVisible,         \* the popup has the class "visible"
    popupList,            \* the title and the items the popup shows
    clickedMenu,          \* the menu button of the last click, if it was one
    itemActions           \* actions of popup items not yet settled

dataVars == <<depthOf, nameOf, noBoundary>>
tableVars == <<expanded, open>>
walkVars == <<kind, pc, maxDepth, depthArg, stack, attempts, found>>
histVars == <<toggled, visited, startOpen, startExpanded, everShown>>
clickVars == <<storeyDisabled, running, outcome>>
registryVars == <<processedModels, classifierSelections, maps, sets,
                  classifierGroups, finderQueryRegistry, classifierItems,
                  finderItems, viewItems, registrations, started, setups,
                  itemsSeen, isolated>>
selectionVars == <<timers, propertiesUpdateTimer, tableSelection, events,
                   burst, staleShown, statusMessage>>
loadVars == <<busy, controls, progress, tasks>>
toolbarVars == <<currentMenu, popupVisible, popupList, clickedMenu,
                 itemActions>>
shellVars == <<registryVars, selectionVars, loadVars, toolbarVars>>
appVars == <<storeyDisabled, running, outcome, ops, last, call, shellVars>>
vars == <<depthOf, nameOf, expanded, open, kind, pc, maxDepth, depthArg, stack,
          attempts, found, toggled, visited, startOpen, startExpanded,
          everShown, storeyDisabled, running, outcome, noBoundary, ops, last,
          call, shellVars>>

\* No first walk is remembered; no helper is being called.
NoLast == [kind |-> "none"]

NoCall == [fn |-> "none"]

\* ------------------------------------------------------------ the data tree
\* A forest in document (pre-)order is the sequence of its groups' depths:
\* the first group is a root and a group is at most one level below the
\* group before it.
IsForest(d) ==
    /\ Len(d) > 0 => d[1] = 0
    /\ \A k \in 2..Len(d) : d[k] <= d[k - 1] + 1

Forests(n) ==
    {d \in [1..n -> 0..(n - 1)] : IsForest(d)}

Nodes == DOMAIN depthOf

\* The parent of group k: the nearest group before it that is one level up.
Parent(k) ==
    IF depthOf[k] = 0 THEN 0
    ELSE CHOOSE p \in 1..(k - 1) :
            /\ depthOf[p] = depthOf[k] - 1
            /\ \A q \in (p + 1)..(k - 1) : depthOf[q] >= depthOf[k]

Children(k) == {c \in Nodes : Parent(c) = k}

Roots == Children(0)

Descendants(k) ==
    {c \in Nodes : c > k /\ \A q \in (k + 1)..c : depthOf[q] > depthOf[k]}

Ancestors(k) ==
    {a \in 1..(k - 1) : \A q \in (a + 1)..k : depthOf[q] > depthOf[a]}

\* The members of a set of groups in document order.
RECURSIVE InOrder(_)
InOrder(S) ==
    IF S = {} THEN <<>>
    ELSE LET m == CHOOSE x \in S : \A y \in S : x <= y
         IN <<m>> \o InOrder(S \ {m})

Range(s) == {s[k] : k \in DOMAIN s}

\* The member of a set of one.
The(S) == CHOOSE x \in S : TRUE

\* ------------------------------------------------------ the table component
HasBoundaryAlways(k) == TRUE

\* The element of group k has a shadow root with a bim-table-children host
\* that has a shadow root of its own, once its children are shown.
HasBoundary(k) == k \notin noBoundary

\* The groups of forest d with a rendering boundary in every ancestor, the
\* boundaries of the groups in nb being absent.
Reachable(d, nb) ==
    {k \in DOMAIN d :
        \A a \in 1..(k - 1) :
            (\A q \in (a + 1)..k : d[q] > d[a]) => a \notin nb}

\* The groups below k that are rendered when all of them show their
\* children.
Under(k) ==
    {c \in Descendants(k) :
        \A a \in {k} \cup (Ancestors(c) \cap Descendants(k)) :
            HasBoundary(a)}

\* A group is in the DOM when every ancestor shows its children and has
\* the boundary that holds them.
Materialized(o) ==
    {k \in Nodes : \A a \in Ancestors(k) : a \in o /\ HasBoundary(a)}

\* data.children is a non-empty array
hasExpandableChildren(k) == Children(k) # {}

toggleChildrenKeepsBelow(o, k, force) ==
    IF force THEN o \cup {k} ELSE o \ {k}

\* TableGroup.toggleChildren(force) on the element of group k.  A group that
\* is connected takes childrenHidden = !table.expanded, so opening a group
\* under an expanded table opens everything below it; hiding the children
\* discards the elements below.
toggleChildren(o, k, force) ==
    IF k \notin Materialized(o) THEN o
    ELSE IF force
         THEN IF k \in o THEN o
              ELSE o \cup {k} \cup (IF expanded THEN Under(k) ELSE {})
         ELSE o \ ({k} \cup Descendants(k))

setExpandedInPlace(o, v) == IF v THEN o ELSE {}

\* table.expanded = v: a change re-renders the table and every group is
\* created anew with childrenHidden = !v; the same value renders nothing.
setExpanded(o, v) ==
    IF v = expanded THEN o
    ELSE IF v THEN Reachable(depthOf, noBoundary) ELSE {}

GroupsInPiercing(o, k) ==
    InOrder({c \in Materialized(o) : k = 0 \/ c \in Descendants(k)})

\* The bim-table-group elements in the shadow root of the bim-table-children
\* of group k (k = 0: of the table), in document order.
GroupsIn(o, k) ==
    IF k = 0 THEN InOrder(Roots)
    ELSE IF k \in Materialized(o) /\ k \in o /\ HasBoundary(k)
    THEN InOrder(Children(k))
    ELSE <<>>

Frame(groups, d) == [groups |-> groups, idx |-> 1, depth |-> d]

Top == stack[Len(stack)]

Pop == SubSeq(stack, 1, Len(stack) - 1)

\* The caller's frame moves on to its next group.
Advance(s) ==
    [s EXCEPT ![Len(s)] = [@ EXCEPT !.idx = @ + 1]]

Idle == kind = "none" /\ ops = <<>>

\* The function has returned and its promise is about to settle: nothing
\* else runs between the two.
Returning == pc \in {"done", "nodata", "failed"}

\* ------------------------------------------------- what every start records
Begin(k, d, m) ==
    /\ kind' = k
    /\ depthArg' = d
    /\ maxDepth' = m
    /\ attempts' = 0
    /\ found' = FALSE
    /\ toggled' = <<>>
    /\ visited' = <<>>
    /\ startOpen' = open
    /\ startExpanded' = expanded
    /\ everShown' = Materialized(open)

\* ---------------------------------------------------------- the environment
UnnamedData ==
    {d \in UNION {Forests(n) : n \in 1..MaxNodes} : TRUE}

\* table.data = rows: the root groups are rendered, and under an expanded
\* table every group below them that has a boundary to be rendered in.
ArriveWith(d, nm, nb) ==
    /\ depthOf' = d
    /\ nameOf' = nm
    /\ noBoundary' = nb
    /\ open' = IF expanded THEN Reachable(d, nb) ELSE {}
    /\ everShown' =
          IF Idle THEN everShown
          ELSE everShown \cup {k \in Reachable(d, nb) : expanded \/ d[k] = 0}
    /\ UNCHANGED <<expanded, walkVars, toggled, visited, startOpen,
                   startExpanded, appVars>>

Arrive(d, nm) == ArriveWith(d, nm, {})

\* table.data is assigned: the rows of the loaded model arrive.
SetData ==
    /\ depthOf = <<>>
    /\ ~Returning
    /\ \E d \in UnnamedData :
          Arrive(d, [k \in DOMAIN d |-> InstanceName])

\* The user clicks the caret of a materialized group: toggleChildren().
UserToggle ==
    /\ Idle
    /\ \E k \in Materialized(open) :
          open' = toggleChildren(open, k, k \notin open)
    /\ UNCHANGED <<dataVars, expanded, walkVars, histVars, appVars>>

\* The table's global flag is switched (Expand All / Collapse All).
UserSetExpanded ==
    /\ Idle
    /\ \E v \in BOOLEAN :
          /\ v # expanded
          /\ open' = setExpanded(open, v)
          /\ expanded' = v
    /\ UNCHANGED <<dataVars, walkVars, histVars, appVars>>

\* ------------------------------------------------------ the readiness waiter
\* while ((!data || data.length === 0) && attempts < 50)
DataMissing == depthOf = <<>>

KeepsWaitingUnbounded(n) == DataMissing

KeepsWaiting(n) == DataMissing /\ n < DataWaitAttempts

WaitsForData == kind \in {"expandToDepth", "expandUntilStorey"}

\* One turn of the loop: await delay(100); attempts++
PollData ==
    /\ pc = "wait"
    /\ WaitsForData
    /\ KeepsWaiting(attempts)
    /\ attempts' = attempts + 1
    /\ UNCHANGED <<dataVars, tableVars, kind, pc, maxDepth, depthArg, stack,
                   found,
                   histVars, appVars>>

\* ----------------------------------------------------- the depth-bounded walks
AtDepthLimitLate(d, m) == d > m

\* expandToDepth: if (currentDepth >= maxDepth) return;
AtDepthLimit(d, m) == d >= m

PastDepthLimitLate(d, m) == d > m + 1

\* expandGroupsRecursive: if (depth > maxDepth) return;
PastDepthLimit(d, m) == d > m

\* ensureGroupOpened toggles only a group whose children are hidden.
childrenHidden(o, k) == k \notin o

ensureGroupFlipped(o, k) == toggleChildren(o, k, childrenHidden(o, k))

ensureGroupOpened(o, k) ==
    IF childrenHidden(o, k) THEN toggleChildren(o, k, TRUE) ELSE o

LogEnsureAlways(o, k) == Append(toggled, k)

\* ensureGroupOpened returns before toggleChildren for an open group.
LogEnsure(o, k) ==
    IF childrenHidden(o, k) THEN Append(toggled, k) ELSE toggled

CallAlways(s, o, g, d, stop) == Append(s, Frame(GroupsIn(o, g), d))

\* A call of a recursive walk on the children of group g at depth d: it
\* returns at once when 'stop' holds, else its frame goes on the stack.
Call(s, o, g, d, stop) ==
    IF stop THEN s ELSE Append(s, Frame(GroupsIn(o, g), d))

StartExpandPropertiesToLevel ==
    /\ Idle
    /\ \E m \in 0..MaxDepthArg : Begin("expandToDepth", 0, m)
    /\ pc' = "wait"
    /\ UNCHANGED <<dataVars, tableVars, stack, appVars>>

\* The loop is left: without data the function returns, else expandToDepth
\* is called on the table's own bim-table-children at depth 0.
DataWaitOver ==
    /\ pc = "wait"
    /\ kind = "expandToDepth"
    /\ ~KeepsWaiting(attempts)
    /\ attempts' = 0
    /\ IF DataMissing \/ AtDepthLimit(0, maxDepth)
       THEN /\ pc' = IF DataMissing THEN "nodata" ELSE "done"
            /\ stack' = <<>>
       ELSE /\ pc' = "walk"
            /\ stack' = <<Frame(GroupsIn(open, 0), 0)>>
    /\ UNCHANGED <<dataVars, tableVars, kind, maxDepth, depthArg, found,
                   histVars, appVars>>

InLoop == pc = "walk" /\ stack # <<>> /\ Top.idx <= Len(Top.groups)

Current == Top.groups[Top.idx]

\* expandToDepth, one group: toggleChildren(true), the awaits, then the
\* recursive call on the group's bim-table-children when there is one.
ExpandToDepthVisit ==
    /\ kind = "expandToDepth"
    /\ InLoop
    /\ LET g == Current
           o == toggleChildren(open, g, TRUE)
       IN /\ open' = o
          /\ toggled' = Append(toggled, g)
          /\ visited' = Append(visited, g)
          /\ everShown' = everShown \cup Materialized(o)
          /\ stack' = IF GroupsIn(o, g) = <<>>
                      THEN Advance(stack)
                      ELSE Call(Advance(stack), o, g, Top.depth + 1,
                                AtDepthLimit(Top.depth + 1, maxDepth))
    /\ UNCHANGED <<dataVars, expanded, kind, pc, maxDepth, depthArg,
                   attempts, found,
                   startOpen, startExpanded, appVars>>

StartExpandGroupsRecursive ==
    /\ Idle
    /\ \E d \in 0..1, m \in 0..MaxDepthArg :
          /\ Begin("expandGroupsRecursive", d, m)
          /\ IF PastDepthLimit(d, m) \/ GroupsIn(open, 0) = <<>>
             THEN pc' = "done" /\ stack' = <<>>
             ELSE pc' = "walk" /\ stack' = <<Frame(GroupsIn(open, 0), d)>>
    /\ UNCHANGED <<dataVars, tableVars, appVars>>

\* expandGroupsRecursive, one group.
ExpandGroupsVisit ==
    /\ kind = "expandGroupsRecursive"
    /\ InLoop
    /\ LET g == Current
           o == IF hasExpandableChildren(g)
                THEN ensureGroupOpened(open, g) ELSE open
       IN /\ open' = o
          /\ toggled' = IF hasExpandableChildren(g)
                        THEN LogEnsure(open, g) ELSE toggled
          /\ visited' = Append(visited, g)
          /\ everShown' = everShown \cup Materialized(o)
          /\ stack' = IF ~hasExpandableChildren(g) \/ GroupsIn(o, g) = <<>>
                      THEN Advance(stack)
                      ELSE Call(Advance(stack), o, g, Top.depth + 1,
                                PastDepthLimit(Top.depth + 1, maxDepth))
    /\ UNCHANGED <<dataVars, expanded, kind, pc, maxDepth, depthArg,
                   attempts, found,
                   startOpen, startExpanded, appVars>>

StartExpandToStoreyRecursive ==
    /\ Idle
    /\ \E d \in 0..1, m \in 0..MaxDepthArg :
          /\ Begin("expandToStoreyRecursive", d, m)
          /\ IF GroupsIn(open, 0) = <<>>
             THEN pc' = "done" /\ stack' = <<>>
             ELSE pc' = "walk" /\ stack' = <<Frame(GroupsIn(open, 0), d)>>
    /\ UNCHANGED <<dataVars, tableVars, appVars>>

\* expandToStoreyRecursive, one group: at the last level the group is
\* opened and the loop goes on; above it the walk descends.
ExpandToStoreyVisit ==
    /\ kind = "expandToStoreyRecursive"
    /\ InLoop
    /\ LET g == Current
           o == IF hasExpandableChildren(g)
                THEN ensureGroupOpened(open, g) ELSE open
       IN /\ open' = o
          /\ toggled' = IF hasExpandableChildren(g)
                        THEN LogEnsure(open, g) ELSE toggled
          /\ visited' = Append(visited, g)
          /\ everShown' = everShown \cup Materialized(o)
          /\ stack' = IF AtDepthLimit(Top.depth, maxDepth)
                         \/ ~hasExpandableChildren(g)
                         \/ GroupsIn(o, g) = <<>>
                      THEN Advance(stack)
                      ELSE Call(Advance(stack), o, g, Top.depth + 1, FALSE)
    /\ UNCHANGED <<dataVars, expanded, kind, pc, maxDepth, depthArg,
                   attempts, found,
                   startOpen, startExpanded, appVars>>

\* A loop has run out of groups: the call returns to its caller.
WalkReturn ==
    /\ pc = "walk"
    /\ stack # <<>>
    /\ Top.idx > Len(Top.groups)
    /\ stack' = Pop
    /\ pc' = IF Len(stack) = 1 THEN "done" ELSE "walk"
    /\ UNCHANGED <<dataVars, tableVars, kind, maxDepth, depthArg, attempts,
                   found, histVars, appVars>>

\* The promise of the operation has settled; the table is idle again.
Settle ==
    /\ pc \in {"done", "nodata"}
    /\ ~(kind = "expandToStoreyLevel")
    /\ kind' = "none"
    /\ pc' = "idle"
    /\ maxDepth' = 0
    /\ depthArg' = 0
    /\ found' = FALSE
    /\ toggled' = <<>>
    /\ visited' = <<>>
    /\ startOpen' = {}
    /\ startExpanded' = FALSE
    /\ everShown' = {}
    /\ last' = NoLast
    /\ UNCHANGED <<dataVars, shellVars,
                   tableVars, stack, attempts, clickVars, ops, call>>

\* The same walk is invoked once more, with the same maxDepth, as soon as
\* its first invocation has returned.
WalkAgain ==
    /\ pc = "done"
    /\ kind \in {"expandToDepth", "expandGroupsRecursive"}
    /\ last = NoLast
    /\ last' = [kind |-> kind, open |-> open, expanded |-> expanded]
    /\ Begin(kind, depthArg, maxDepth)
    /\ IF kind = "expandToDepth"
       THEN pc' = "wait" /\ stack' = <<>>
       ELSE IF PastDepthLimit(depthArg, maxDepth) \/ GroupsIn(open, 0) = <<>>
            THEN pc' = "done" /\ stack' = <<>>
            ELSE pc' = "walk" /\ stack' = <<Frame(GroupsIn(open, 0), depthArg)>>
    /\ UNCHANGED <<dataVars, shellVars, tableVars, clickVars, ops, call>>

\* ------------------------------------------------------------ the classifier
Absent == "<undefined>"

\* a || b
OrElse(a, b) == IF a \in {Absent, EmptyName} THEN b ELSE a

\* The data of group k as the table hands it to the group element:
\* { data: { Name }, children }.
NoData == [present |-> FALSE, Name |-> Absent, name |-> Absent]

GroupData(k) ==
    [present |-> TRUE, Name |-> Absent, name |-> Absent,
     data |-> [present |-> TRUE, Name |-> nameOf[k], name |-> Absent]]

\* A field of data.data, undefined when there is no data.data (?.).
Nested(data, field) ==
    IF data.data.present THEN data.data[field] ELSE Absent

\* const actualData = groupElement.data?.data || groupElement.data;
\* const name = actualData?.Name || actualData?.name || '';
actualDataName(data) ==
    IF ~data.present THEN EmptyName
    ELSE IF data.data.present
         THEN OrElse(data.data.Name, OrElse(data.data.name, EmptyName))
         ELSE OrElse(data.Name, OrElse(data.name, EmptyName))

nestedName(k) == actualDataName(GroupData(k))

IsTypeName(n) == n \in {StoreyName, OtherTypeName}

\* name === 'IFCBUILDINGSTOREY'
IsStoreyName(n) == n = StoreyName

\* ------------------------------------------------------- the predicate walk
Names == {StoreyName, OtherTypeName, InstanceName}

\* table.data = rows, each group of the rows with one of 'names'.
ArriveNamed(names) ==
    \E n \in 1..MaxNamedNodes :
        \E d \in Forests(n) :
            \E nm \in [1..n -> names] : Arrive(d, nm)

\* table.data is assigned with the spatial structure of a loaded model,
\* before the user asks for the storeys.
SetNamedData ==
    /\ depthOf = <<>>
    /\ Idle
    /\ ArriveNamed(Names)

StartExpandUntilStorey ==
    /\ Idle
    /\ Begin("expandUntilStorey", 0, 0)
    /\ pc' = "wait"
    /\ UNCHANGED <<dataVars, tableVars, stack, appVars>>

\* The loop is left: without data the function returns, else
\* expandUntilStorey is called on the table's own bim-table-children.
StoreyWaitOver ==
    /\ pc = "wait"
    /\ kind = "expandUntilStorey"
    /\ ~KeepsWaiting(attempts)
    /\ attempts' = 0
    /\ IF DataMissing
       THEN pc' = "nodata" /\ stack' = <<>>
       ELSE pc' = "walk" /\ stack' = <<Frame(GroupsIn(open, 0), 0)>>
    /\ UNCHANGED <<dataVars, tableVars, kind, maxDepth, depthArg, found,
                   histVars, appVars>>

UnwindOne(s) == SubSeq(s, 1, Len(s) - 1)

\* return true, and in every caller: if (found) return true
Unwind(s) == <<>>

\* expandUntilStorey, one group: the storey group is opened and ends the
\* walk; any other group is opened and searched.
ExpandUntilStoreyVisit ==
    /\ kind = "expandUntilStorey"
    /\ InLoop
    /\ LET g == Current
           o == toggleChildren(open, g, TRUE)
       IN /\ open' = o
          /\ toggled' = Append(toggled, g)
          /\ visited' = Append(visited, g)
          /\ everShown' = everShown \cup Materialized(o)
          /\ IF IsStoreyName(nestedName(g))
             THEN /\ found' = TRUE
                  /\ stack' = Unwind(stack)
                  /\ pc' = IF stack' = <<>> THEN "done" ELSE "walk"
             ELSE /\ found' = found
                  /\ pc' = pc
                  /\ stack' = IF GroupsIn(o, g) = <<>>
                              THEN Advance(stack)
                              ELSE Call(Advance(stack), o, g, Top.depth + 1,
                                        FALSE)
    /\ UNCHANGED <<dataVars, expanded, kind, maxDepth, depthArg, attempts,
                   startOpen, startExpanded, appVars>>

\* ------------------------------------------------------- waitForRootGroups
\* collectRootGroups looks for bim-table-group elements in the table's own
\* shadow root: it sees the root groups when the children host renders them
\* in its light DOM and none when they are behind the host's shadow root.
RootGroupsSeen ==
    {<<>>} \cup (IF DataMissing THEN {} ELSE {InOrder(Roots)})

\* for (let attempt = 0; attempt < 40; attempt++)
RootLoopRuns(n) == n < RootWaitAttempts

\* fragments.list.onItemSet: analyzeSpatialTreeData is called.
StartAnalyze ==
    /\ Idle
    /\ Begin("analyzeSpatialTreeData", 0, 0)
    /\ pc' = "waitRoots"
    /\ UNCHANGED <<dataVars, tableVars, stack, appVars>>

\* One turn of the loop of waitForRootGroups.
PollRootGroups ==
    /\ kind = "analyzeSpatialTreeData"
    /\ pc = "waitRoots"
    /\ RootLoopRuns(attempts)
    /\ \E seen \in RootGroupsSeen :
          IF Len(seen) > 0
          THEN /\ pc' = "done"
               /\ attempts' = 0
               /\ visited' = seen
          ELSE /\ pc' = pc
               /\ attempts' = attempts + 1
               /\ visited' = visited
    /\ UNCHANGED <<dataVars, tableVars, kind, maxDepth, depthArg, stack, found,
                   toggled, startOpen, startExpanded, everShown, appVars>>

\* The loop has run out: return [].
RootWaitOver ==
    /\ kind = "analyzeSpatialTreeData"
    /\ pc = "waitRoots"
    /\ ~RootLoopRuns(attempts)
    /\ pc' = "done"
    /\ attempts' = 0
    /\ UNCHANGED <<dataVars, tableVars, kind, maxDepth, depthArg, stack, found,
                   histVars, appVars>>

\* ------------------------------------------- Expand To Storeys (main.ts)
\* const name = data.Name || data.name || data.data?.Name || ... || ''
dataName(data) ==
    OrElse(data.Name,
           OrElse(data.name,
                  OrElse(Nested(data, "Name"),
                         OrElse(Nested(data, "name"), EmptyName))))

groupName(k) == dataName(GroupData(k))

\* nextName.startsWith is a function only when the name is a string.
IsString(n) == n # NonStringName

\* nextName.startsWith('IFC')
startsWithIFC(n) == n \in {StoreyName, OtherTypeName}

\* findAllGroups on the shadow root of the bim-table-children of group k:
\* the groups of that container, then, group by group, all that
\* findAllGroups finds behind the group's own shadow root.
RECURSIVE findAllGroups(_, _)
RECURSIVE FindBelow(_, _)
findAllGroups(o, k) ==
    The({directGroups \o FindBelow(o, directGroups) :
            directGroups \in {GroupsIn(o, k)}})

FindBelow(o, groups) ==
    IF groups = <<>> THEN <<>>
    ELSE findAllGroups(o, Head(groups)) \o FindBelow(o, Tail(groups))

\* The index of the first group of 'all' named IFCBUILDINGSTOREY, 0 if none.
FirstStorey(all) ==
    IF \E i \in DOMAIN all : IsStoreyName(groupName(all[i]))
    THEN CHOOSE i \in DOMAIN all :
            /\ IsStoreyName(groupName(all[i]))
            /\ \A h \in 1..(i - 1) : ~IsStoreyName(groupName(all[h]))
    ELSE 0

\* The inner loop from index j: the groups after the storey group have their
\* children hidden until a name that starts with IFC is met; a name without
\* startsWith throws.
RECURSIVE CollapseFrom(_, _, _, _)
CollapseFrom(all, j, o, log) ==
    IF j > Len(all) THEN [open |-> o, toggled |-> log, threw |-> FALSE]
    ELSE IF ~IsString(groupName(all[j]))
         THEN [open |-> o, toggled |-> log, threw |-> TRUE]
    ELSE IF startsWithIFC(groupName(all[j]))
         THEN [open |-> o, toggled |-> log, threw |-> FALSE]
    ELSE CollapseFrom(all, j + 1, toggleChildren(o, all[j], FALSE),
                      Append(log, all[j]))

\* The pass over allGroups after the table has rendered.
CollapsePass(o) ==
    The({IF i = 0 THEN [open |-> o, toggled |-> <<>>, threw |-> FALSE]
         ELSE CollapseFrom(allGroups, i + 1, o, <<>>) :
            allGroups \in {findAllGroups(o, 0)},
            i \in {FirstStorey(findAllGroups(o, 0))}})

AppNames == Names \cup {NonStringName}

\* The spatial tree is updated with the structure of a loaded model.
SetAppData ==
    /\ depthOf = <<>>
    /\ ~Returning
    /\ ArriveNamed(AppNames)

\* Another operation starts on the table: the calls in flight are no
\* longer the only one at work.
Disturbed(q) ==
    [i \in DOMAIN q |->
        [q[i] EXCEPT !.alone = FALSE, !.fromExpanded = FALSE,
                     !.fromPartlyOpen = FALSE]]

ClickPassesAlways == FALSE

\* if (expandStoreyButton.disabled) return;
ClickIgnored == storeyDisabled

\* A click on Expand To Storeys: the handler disables the button and calls
\* expandToStoreyLevel, which sets table.expanded = true and awaits the
\* rendering.
ClickExpandStorey ==
    /\ ~Returning
    /\ ~ClickIgnored
    /\ storeyDisabled' = TRUE
    /\ running' = running + 1
    /\ Begin("expandToStoreyLevel", 0, 0)
    /\ expanded' = TRUE
    /\ open' = setExpanded(open, TRUE)
    /\ pc' = "rendering"
    /\ ops' = Disturbed(ops)
    /\ UNCHANGED <<dataVars, shellVars, stack, outcome, last, call>>

\* After the awaits: findAllGroups and the two loops, without a further
\* await, then the function returns or throws.
StoreyCollapsePass ==
    /\ kind = "expandToStoreyLevel"
    /\ pc = "rendering"
    /\ \E r \in {CollapsePass(open)} :
          /\ open' = r.open
          /\ toggled' = r.toggled
          /\ everShown' = everShown \cup Materialized(open)
          /\ pc' = IF r.threw THEN "failed" ELSE "done"
    /\ UNCHANGED <<dataVars, expanded, kind, maxDepth, depthArg, stack,
                   attempts, found, visited, startOpen, startExpanded,
                   appVars>>

\* The promise settles: finally(() => expandStoreyButton.disabled = false)
StoreySettle ==
    /\ kind = "expandToStoreyLevel"
    /\ pc \in {"done", "failed"}
    /\ storeyDisabled' = FALSE
    /\ running' = running - 1
    /\ outcome' = IF pc = "failed" THEN "rejected" ELSE "fulfilled"
    /\ kind' = "none"
    /\ pc' = "idle"
    /\ toggled' = <<>>
    /\ visited' = <<>>
    /\ startOpen' = {}
    /\ startExpanded' = FALSE
    /\ everShown' = {}
    /\ UNCHANGED <<dataVars, shellVars,
                   tableVars, maxDepth, depthArg, stack, attempts,
                   found, ops, last, call>>

\* ---------------------------------------------------------- the helpers
Nullish == "<null>"
NotCallable == "<not a function>"
NoTable == "<no bim-table>"

\* What findTableElement may be handed: null, undefined, a primitive, or an
\* object with or without tagName, querySelector and shadowRoot.
Elements ==
    {[type |-> t, tagName |-> Absent, querySelector |-> Absent,
      shadowRoot |-> Absent] : t \in {"null", "undefined", "string"}}
    \cup
    [type : {"object"},
     tagName : {Absent, Nullish, "BIM-TABLE", "DIV", NonStringName},
     querySelector : {Absent, NotCallable, NoTable, "nested"},
     shadowRoot : {Absent, Nullish, NoTable, "shadowTable"}]

toLowerCase(t) ==
    CASE t = "BIM-TABLE" -> "bim-table"
      [] t = "DIV" -> "div"
      [] OTHER -> t

Returns(v) == [value |-> v, threw |-> FALSE]

Throws == [value |-> "TypeError", threw |-> TRUE]

Pending == [value |-> "pending", threw |-> FALSE]

\* element && typeof element === 'object'
IsObject(e) == e.type = "object"

findTableElementShadowFirst(e) ==
    IF IsObject(e) /\ e.tagName \notin {Absent, Nullish}
          /\ ~IsString(e.tagName)
    THEN Throws
    ELSE IF IsObject(e) /\ e.tagName \notin {Absent, Nullish}
               /\ toLowerCase(e.tagName) = "bim-table"
    THEN Returns("input")
    ELSE IF IsObject(e) /\ e.shadowRoot = "shadowTable"
    THEN Returns("shadowTable")
    ELSE IF IsObject(e) /\ e.querySelector = NotCallable
    THEN Throws
    ELSE IF IsObject(e) /\ e.querySelector = "nested"
    THEN Returns("nested")
    ELSE Returns("null")

\* findTableElement(element)
findTableElement(e) ==
    IF IsObject(e) /\ e.tagName \notin {Absent, Nullish}
          /\ ~IsString(e.tagName)
    THEN Throws
    ELSE IF IsObject(e) /\ e.tagName \notin {Absent, Nullish}
               /\ toLowerCase(e.tagName) = "bim-table"
    THEN Returns("input")
    ELSE IF IsObject(e) /\ e.querySelector = NotCallable
    THEN Throws
    ELSE IF IsObject(e) /\ e.querySelector = "nested"
    THEN Returns("nested")
    ELSE IF IsObject(e) /\ e.shadowRoot = "shadowTable"
    THEN Returns("shadowTable")
    ELSE Returns("null")

NameValues == {Absent, EmptyName, StoreyName, InstanceName}

\* The data bound to a group element, or none.
Payloads ==
    {[present |-> FALSE, Name |-> Absent, name |-> Absent, data |-> NoData]}
    \cup
    [present : {TRUE}, Name : NameValues, name : NameValues,
     data : {NoData} \cup
            [present : {TRUE}, Name : NameValues, name : NameValues]]

\* A helper is called with one of its possible arguments.
InitCalls ==
    call \in {[fn |-> "findTableElement", arg |-> e, result |-> Pending] :
                 e \in Elements}
          \cup {[fn |-> f, arg |-> d, result |-> Pending] :
                    f \in {"dataName", "actualDataName"}, d \in Payloads}

FindTableElementCall ==
    /\ call.fn = "findTableElement"
    /\ call.result = Pending
    /\ call' = [call EXCEPT !.result = findTableElement(call.arg)]
    /\ UNCHANGED <<dataVars, shellVars,
                   tableVars, walkVars, histVars, clickVars, ops,
                   last>>

\* if (data) { const name = ... }: the name main.ts reads from the data.
DataNameCall ==
    /\ call.fn = "dataName"
    /\ call.result = Pending
    /\ call.arg.present
    /\ call' = [call EXCEPT !.result = Returns(dataName(call.arg))]
    /\ UNCHANGED <<dataVars, shellVars,
                   tableVars, walkVars, histVars, clickVars, ops,
                   last>>

\* The name expandUntilStorey reads from the data.
ActualDataNameCall ==
    /\ call.fn = "actualDataName"
    /\ call.result = Pending
    /\ call' = [call EXCEPT !.result = Returns(actualDataName(call.arg))]
    /\ UNCHANGED <<dataVars, shellVars,
                   tableVars, walkVars, histVars, clickVars, ops,
                   last>>

\* ------------------------------------------- Expand All and Collapse All
\* The async function has returned and its promise is about to settle.
OpReturning == \E i \in DOMAIN ops : ops[i].pc = "returned"

\* Some groups show their children and some do not.
PartlyOpen(o) == o # {} /\ o # Nodes

\* A call of expandAllInSpatialTree or collapseAllInSpatialTree, with the
\* table as it found it.
NewOp(name, at) ==
    [op |-> name, pc |-> at, alone |-> Idle,
     fromExpanded |-> Idle /\ expanded,
     fromPartlyOpen |-> Idle /\ PartlyOpen(open)]

\* The spatial tree shows the structure of a loaded model.
SetTreeData ==
    /\ depthOf = <<>>
    /\ ~Returning
    /\ \E n \in 1..MaxTreeNodes :
          \E d \in Forests(n) : Arrive(d, [k \in 1..n |-> InstanceName])

\* The rows arrive in a table some of whose groups never get the nested
\* boundary their children would be rendered in.
SetDataWithoutBoundaries ==
    /\ depthOf = <<>>
    /\ ~Returning
    /\ \E n \in 1..MaxTreeNodes :
          \E d \in Forests(n) :
             \E nb \in SUBSET {k \in 1..(n - 1) : d[k + 1] = d[k] + 1} :
                ArriveWith(d, [k \in 1..n |-> InstanceName], nb)

\* The click handler of Expand All has no guard: expandAllInSpatialTree
\* runs up to its first await, table.expanded = false.
ClickExpandAll ==
    /\ ~Returning
    /\ ~OpReturning
    /\ Len(ops) < MaxOps
    /\ expanded' = FALSE
    /\ open' = setExpanded(open, FALSE)
    /\ ops' = Append(Disturbed(ops), NewOp("expandAll", "collapsed"))
    /\ UNCHANGED <<dataVars, shellVars,
                   walkVars, histVars, clickVars, last, call>>

\* After the update and the 100 ms: table.expanded = true.
ExpandAllStep ==
    /\ ~Returning
    /\ ~OpReturning
    /\ \E i \in DOMAIN ops :
          /\ ops[i].op = "expandAll"
          /\ ops[i].pc = "collapsed"
          /\ expanded' = TRUE
          /\ open' = setExpanded(open, TRUE)
          /\ ops' = [ops EXCEPT ![i].pc = "expanded"]
    /\ UNCHANGED <<dataVars, shellVars,
                   walkVars, histVars, clickVars, last, call>>

\* The click handler of Collapse All has no guard either:
\* collapseAllInSpatialTree runs up to its await, table.expanded = false.
ClickCollapseAll ==
    /\ ~Returning
    /\ ~OpReturning
    /\ Len(ops) < MaxOps
    /\ expanded' = FALSE
    /\ open' = setExpanded(open, FALSE)
    /\ ops' = Append(Disturbed(ops), NewOp("collapseAll", "collapsing"))
    /\ UNCHANGED <<dataVars, shellVars,
                   walkVars, histVars, clickVars, last, call>>

\* The last await of either function is over: it returns.
OpReturn ==
    /\ ~Returning
    /\ ~OpReturning
    /\ \E i \in DOMAIN ops :
          /\ ops[i].pc \in {"expanded", "collapsing"}
          /\ ops' = [ops EXCEPT ![i].pc = "returned"]
    /\ UNCHANGED <<dataVars, shellVars,
                   tableVars, walkVars, histVars, clickVars, last,
                   call>>

\* The promise of the call settles; the handlers discard it (void).
OpSettle ==
    /\ \E i \in DOMAIN ops :
          /\ ops[i].pc = "returned"
          /\ ops' = SubSeq(ops, 1, i - 1) \o SubSeq(ops, i + 1, Len(ops))
    /\ UNCHANGED <<dataVars, shellVars,
                   tableVars, walkVars, histVars, clickVars, last,
                   call>>

\* ------------------------------------------------------ the model registries
Models == 1..MaxModels

ItemIds == 1..MaxItemId

\* The labels of categoryGroups, in the order of the loop.
CategoryGroups == <<"structure", "envelope", "roof">>

GroupLabels == Range(CategoryGroups)

\* The labels of the definitions of ensureFinderQueries.
FinderLabels == {"all walls", "doors and windows", "columns and beams"}

\* Objects have names.  The ModelIdMap made for the i-th label is object i,
\* the one cloneModelIdMap makes is object CloneRef, and the Set made for
\* the entry of model m in map r is object <<r, m>>.
NoRef == 0

NoSet == <<0, 0>>

CloneRef == Len(CategoryGroups) + 1

LabelIndex(l) == The({i \in DOMAIN CategoryGroups : CategoryGroups[i] = l})

\* The ModelIdMap objects and the Set objects that exist.
Heap == [maps |-> maps, sets |-> sets]

\* The ids map[modelId] holds in heap h, none without an entry.
IdsAt(h, ref, m) ==
    IF ref = NoRef THEN {}
    ELSE IF h.maps[ref][m] = NoSet THEN {}
    ELSE h.sets[h.maps[ref][m]]

\* const map = { [modelId]: new Set(ids) }, as object 'ref'.
newModelIdMap(h, ref, m, ids) ==
    [maps |-> (ref :> [k \in Models |->
                          IF k = m THEN <<ref, m>> ELSE NoSet]) @@ h.maps,
     sets |-> (<<ref, m>> :> ids) @@ h.sets]

\* mergeModelIdMap(target, { [modelId]: ids }): the ids go into the Set the
\* target has for the model, or into a new Set that becomes its entry.
mergeModelIdMap(h, target, m, ids) ==
    IF h.maps[target][m] = NoSet
    THEN [maps |-> [h.maps EXCEPT ![target][m] = <<target, m>>],
          sets |-> (<<target, m>> :> ids) @@ h.sets]
    ELSE [maps |-> h.maps,
          sets |-> [h.sets EXCEPT ![h.maps[target][m]] = @ \cup ids]]

cloneModelIdMapShared(h, ref) ==
    [maps |-> h.maps, sets |-> h.sets, ref |-> ref]

\* cloneModelIdMap(map): a new object with a new Set for every entry.
cloneModelIdMap(h, ref) ==
    [maps |-> (CloneRef :> [m \in Models |->
                               IF h.maps[ref][m] = NoSet THEN NoSet
                               ELSE <<CloneRef, m>>]) @@ h.maps,
     sets |-> [n \in {<<CloneRef, m>> : m \in {k \in Models :
                                              h.maps[ref][k] # NoSet}} |->
                  h.sets[h.maps[ref][n[2]]]] @@ h.sets,
     ref |-> CloneRef]

\* The heap without the objects only the receiver of a clone could reach.
Collected(h) ==
    [maps |-> [r \in DOMAIN h.maps \ {CloneRef} |-> h.maps[r]],
     sets |-> [n \in {x \in DOMAIN h.sets : x[1] # CloneRef} |-> h.sets[n]]]

AlreadyProcessedNever(m) == FALSE

\* if (processedModels.has(modelId)) return;
AlreadyProcessed(m) == m \in processedModels

\* registerModelTools(params) up to its first await: the memo test, the
\* memo entry, and the request for the items of the first category group.
\* loadIfcBuffer calls it for a newly loaded model, and queue() runs one
\* load at a time, so a new model arrives when no set-up is under way; a
\* call for a model that was passed before can arrive at any moment.
RegisterModelTools ==
    /\ started < MaxRegistrations
    /\ started' = started + 1
    /\ \E m \in Models :
          IF AlreadyProcessed(m)
          THEN UNCHANGED <<processedModels, registrations, setups>>
          ELSE /\ registrations = <<>>
               /\ processedModels' = processedModels \cup {m}
               /\ setups' = [setups EXCEPT ![m] = @ + 1]
               /\ registrations' =
                     Append(registrations, [model |-> m, group |-> 1])
    /\ UNCHANGED <<dataVars, tableVars, walkVars, histVars, clickVars, ops,
                   last, call, selectionVars, loadVars, toolbarVars,
                   classifierSelections, maps, sets,
                   classifierGroups, finderQueryRegistry, classifierItems,
                   finderItems, viewItems, itemsSeen, isolated>>

\* The heap and classifierSelections after one turn of the loop over
\* categoryGroups for model m, label l and the ids found.
Selected(m, l, ids) ==
    IF ids = {} THEN [maps |-> maps, sets |-> sets,
                      selections |-> classifierSelections]
    ELSE IF classifierSelections[l] # NoRef
    THEN [maps |-> mergeModelIdMap(Heap, classifierSelections[l], m, ids).maps,
          sets |-> mergeModelIdMap(Heap, classifierSelections[l], m, ids).sets,
          selections |-> classifierSelections]
    ELSE [maps |-> newModelIdMap(Heap, LabelIndex(l), m, ids).maps,
          sets |-> newModelIdMap(Heap, LabelIndex(l), m, ids).sets,
          selections |-> [classifierSelections EXCEPT ![l] = LabelIndex(l)]]

\* What getItemsOfCategories can answer: the model has no item of the
\* categories, or it has the items ItemIds.
ItemsOfCategories == {{}, ItemIds}

\* getItemsOfCategories has answered: the rest of the turn of the loop,
\* and after the last turn the classifier and finder menus, up to the next
\* await.
CategoryGroupStep ==
    \E i \in DOMAIN registrations :
       /\ registrations[i].group \in DOMAIN CategoryGroups
       /\ \E ids \in ItemsOfCategories :
             \E m \in {registrations[i].model},
                l \in {CategoryGroups[registrations[i].group]} :
                \E r \in {Selected(m, l, ids)} :
                   /\ itemsSeen' = [itemsSeen EXCEPT ![m][l] = @ \cup ids]
                   /\ maps' = r.maps
                   /\ sets' = r.sets
                   /\ classifierSelections' = r.selections
                   /\ classifierGroups' =
                         [classifierGroups EXCEPT ![l][m] = @ \cup ids]
                   /\ IF registrations[i].group = Len(CategoryGroups)
                      THEN /\ classifierItems' =
                                 {g \in GroupLabels : r.selections[g] # NoRef}
                           /\ finderQueryRegistry' = FinderLabels
                           /\ finderItems' = FinderLabels
                      ELSE UNCHANGED <<classifierItems, finderQueryRegistry,
                                       finderItems>>
       /\ registrations' = [registrations EXCEPT ![i].group = @ + 1]
       /\ UNCHANGED <<dataVars, tableVars, walkVars, histVars, clickVars, ops,
                      last, call, selectionVars, loadVars, toolbarVars,
                   processedModels, viewItems, started,
                      setups, isolated>>

\* views.createFromIfcStoreys has answered: toolbar.updateViews, return.
ViewsCreated ==
    \E i \in DOMAIN registrations :
       /\ registrations[i].group = Len(CategoryGroups) + 1
       /\ viewItems' = viewItems \cup {registrations[i].model}
       /\ registrations' = SubSeq(registrations, 1, i - 1)
                           \o SubSeq(registrations, i + 1, Len(registrations))
       /\ UNCHANGED <<dataVars, tableVars, walkVars, histVars, clickVars, ops,
                      last, call, selectionVars, loadVars, toolbarVars,
                   processedModels, classifierSelections,
                      maps, sets, classifierGroups, finderQueryRegistry,
                      classifierItems, finderItems, started, setups,
                      itemsSeen, isolated>>

\* The action of a classifier menu item:
\* hider.isolate(cloneModelIdMap(selection)).  One such call is followed.
ClassifierItemAction ==
    /\ isolated = NoRef
    /\ \E l \in classifierItems :
          \E r \in {cloneModelIdMap(Heap, classifierSelections[l])} :
             /\ maps' = r.maps
             /\ sets' = r.sets
             /\ isolated' = r.ref
    /\ UNCHANGED <<dataVars, tableVars, walkVars, histVars, clickVars, ops,
                   last, call, selectionVars, loadVars, toolbarVars,
                   processedModels, classifierSelections,
                   classifierGroups, finderQueryRegistry, classifierItems,
                   finderItems, viewItems, registrations, started, setups,
                   itemsSeen>>

\* The heap after the receiver of map 'ref' changed it: an id more or less
\* in one of its Sets, or an entry deleted.
Mutations(h, ref) ==
    {[maps |-> [h.maps EXCEPT ![ref][m] = NoSet], sets |-> h.sets] :
        m \in {k \in Models : h.maps[ref][k] # NoSet}}
    \cup
    {[maps |-> h.maps,
      sets |-> [h.sets EXCEPT ![h.maps[ref][x[1]]] =
                   IF x[2] \in @ THEN @ \ {x[2]} ELSE @ \cup {x[2]}]] :
        x \in {k \in Models : h.maps[ref][k] # NoSet} \X ItemIds}

\* hider.isolate is done with the map it was given, which it may have
\* changed; what only it could reach is garbage.
IsolateReturns ==
    /\ isolated # NoRef
    /\ \E h \in {Heap} \cup Mutations(Heap, isolated) :
          /\ maps' = Collected(h).maps
          /\ sets' = Collected(h).sets
    /\ isolated' = NoRef
    /\ UNCHANGED <<dataVars, tableVars, walkVars, histVars, clickVars, ops,
                   last, call, selectionVars, loadVars, toolbarVars,
                   processedModels, classifierSelections,
                   classifierGroups, finderQueryRegistry, classifierItems,
                   finderItems, viewItems, registrations, started, setups,
                   itemsSeen>>

\* ------------------------------------------- selection and properties table
\* setTimeout(..., 50)
DebounceDelay == 50

\* The empty ModelIdMap {}, and the non-empty selections.
EmptySelection == 0

Selections == 1..MaxSelections

NoTimer == 0

NoBurst == [events |-> 0, first |-> EmptySelection, last |-> EmptySelection,
            calls |-> 0, shown |-> EmptySelection]

clearTimeoutKeeps(ts, id) == ts

\* clearTimeout(propertiesUpdateTimer)
clearTimeout(ts, id) == {t \in ts : t.id # id}

\* A timer that has run for the whole delay can fire.
Due(t) == t.left = 0

\* The highlight event opens a burst unless it follows the event before it
\* by less than the delay, which is when the timer of that event still has
\* time left.
OpensBurst ==
    \A t \in timers : t.id = propertiesUpdateTimer => Due(t)

\* highlighter.events.select.onHighlight: the status line, then the timer
\* of the event before is cleared and a new one is set.
Highlight ==
    /\ events < MaxEvents
    /\ events' = events + 1
    /\ \E modelIdMap \in {EmptySelection} \cup Selections :
          /\ statusMessage' = IF modelIdMap # EmptySelection
                              THEN "selected" ELSE statusMessage
          /\ timers' =
                (IF propertiesUpdateTimer # NoTimer
                 THEN clearTimeout(timers, propertiesUpdateTimer)
                 ELSE timers)
                \cup {[id |-> events + 1, modelIdMap |-> modelIdMap,
                       left |-> DebounceDelay, beforeClear |-> FALSE]}
          /\ burst' = IF OpensBurst
                      THEN [events |-> 1, first |-> modelIdMap,
                            last |-> modelIdMap, calls |-> 0,
                            shown |-> EmptySelection]
                      ELSE [burst EXCEPT !.events = @ + 1,
                                         !.last = modelIdMap]
    /\ propertiesUpdateTimer' = events + 1
    /\ UNCHANGED <<dataVars, tableVars, walkVars, histVars, clickVars, ops,
                   last, call, registryVars, loadVars, toolbarVars,
                   tableSelection, staleShown>>

\* highlighter.events.select.onClear: the status line and
\* updatePropertiesTable({ modelIdMap: {} }).
ClearSelection ==
    /\ events < MaxEvents
    /\ events' = events + 1
    /\ statusMessage' = "selection empty"
    /\ tableSelection' = EmptySelection
    /\ staleShown' = FALSE
    /\ timers' = {[t EXCEPT !.beforeClear = TRUE] : t \in timers}
    /\ UNCHANGED <<dataVars, tableVars, walkVars, histVars, clickVars, ops,
                   last, call, registryVars, loadVars, toolbarVars,
                   propertiesUpdateTimer, burst>>

\* A millisecond passes while a timer is pending.
Tick ==
    /\ \E t \in timers : ~Due(t)
    /\ timers' = {[t EXCEPT !.left = IF @ = 0 THEN 0 ELSE @ - 1] :
                     t \in timers}
    /\ UNCHANGED <<dataVars, tableVars, walkVars, histVars, clickVars, ops,
                   last, call, registryVars, loadVars, toolbarVars,
                   propertiesUpdateTimer,
                   tableSelection, events, burst, staleShown, statusMessage>>

\* The timer callback: updatePropertiesTable({ modelIdMap });
\* propertiesUpdateTimer = null.
TimerFires ==
    /\ \E t \in timers :
          /\ Due(t)
          /\ timers' = timers \ {t}
          /\ tableSelection' = t.modelIdMap
          /\ staleShown' = t.beforeClear
          /\ burst' = [burst EXCEPT !.calls = @ + 1, !.shown = t.modelIdMap]
    /\ propertiesUpdateTimer' = NoTimer
    /\ UNCHANGED <<dataVars, tableVars, walkVars, histVars, clickVars, ops,
                   last, call, registryVars, loadVars, toolbarVars,
                   events, statusMessage>>

\* ------------------------------------------------------------- the load queue
\* The two triggers of an IFC load: the Load button and the file input.
LoadTriggers == {"sample", "file"}

\* progress.value after clamp(value), in steps of 1 / MaxRatio.
Ratios == 0..MaxRatio

BusyNever == FALSE

\* if (busy) return;
Busy == busy

setBusyButtonOnly(active) == [sample |-> active, file |-> FALSE]

\* ui.setBusy(active)
setBusy(active) == [sample |-> active, file |-> active]

\* The argument null of ui.setProgress, and a progress state without ratio.
NoRatio == 0 - 1

\* ui.setProgress(value)
setProgress(value) ==
    IF value = NoRatio THEN [hidden |-> TRUE, value |-> 0]
    ELSE [hidden |-> FALSE, value |-> value]

\* The tasks that were started and have not settled.
RunningTasks == {i \in DOMAIN tasks : tasks[i].pc \in {"fetch", "load",
                                                       "register"}}

\* onSample / onFile: queue(task). A call while busy returns at once and
\* its task is never started; otherwise the task runs to its first await.
Queue ==
    /\ Len(tasks) < MaxLoads
    /\ \E trigger \in LoadTriggers :
          IF Busy
          THEN /\ tasks' = Append(tasks, [trigger |-> trigger,
                                         pc |-> "dropped",
                                         promise |-> "fulfilled"])
               /\ UNCHANGED <<busy, controls, progress, statusMessage>>
          ELSE /\ busy' = TRUE
               /\ controls' = setBusy(TRUE)
               /\ statusMessage' = IF trigger = "sample"
                                   THEN "downloading" ELSE "converting"
               /\ tasks' = Append(tasks, [trigger |-> trigger,
                                         pc |-> "fetch",
                                         promise |-> "pending"])
               /\ UNCHANGED progress
    /\ UNCHANGED <<dataVars, tableVars, walkVars, histVars, clickVars, ops,
                   last, call, registryVars, timers, propertiesUpdateTimer,
                   tableSelection, events, burst, staleShown, toolbarVars>>

\* fetchIfc / readFile has answered: loadIfcBuffer begins, ui.setProgress(0)
\* and ifcLoader.load.
BufferReady ==
    /\ \E i \in DOMAIN tasks :
          /\ tasks[i].pc = "fetch"
          /\ tasks' = [tasks EXCEPT ![i].pc = "load"]
    /\ progress' = setProgress(0)
    /\ UNCHANGED <<dataVars, tableVars, walkVars, histVars, clickVars, ops,
                   last, call, registryVars, selectionVars, toolbarVars,
                   busy, controls>>

\* progressCallback of ifcLoader.load, with or without a ratio.
ProgressCallback ==
    /\ \E i \in DOMAIN tasks : tasks[i].pc = "load"
    /\ \E ratio \in Ratios \cup {NoRatio} :
          IF ratio # NoRatio
          THEN /\ progress' = setProgress(ratio)
               /\ statusMessage' = "converting with ratio"
          ELSE /\ statusMessage' = "preparing data"
               /\ UNCHANGED progress
    /\ UNCHANGED <<dataVars, tableVars, walkVars, histVars, clickVars, ops,
                   last, call, registryVars, timers, propertiesUpdateTimer,
                   tableSelection, events, burst, staleShown, toolbarVars,
                   busy, controls, tasks>>

\* ifcLoader.load has answered: ui.setProgress(null), the status line and
\* registerModelTools.
ModelLoaded ==
    /\ \E i \in DOMAIN tasks :
          /\ tasks[i].pc = "load"
          /\ tasks' = [tasks EXCEPT ![i].pc = "register"]
    /\ progress' = setProgress(NoRatio)
    /\ statusMessage' = "loading complete"
    /\ UNCHANGED <<dataVars, tableVars, walkVars, histVars, clickVars, ops,
                   last, call, registryVars, timers, propertiesUpdateTimer,
                   tableSelection, events, burst, staleShown, toolbarVars,
                   busy, controls>>

\* The finally block of queue.
Release ==
    /\ busy' = FALSE
    /\ controls' = setBusy(FALSE)
    /\ progress' = setProgress(NoRatio)

\* registerModelTools has returned: the task is fulfilled, and so is the
\* promise of queue after its finally block.
TaskFulfilled ==
    /\ \E i \in DOMAIN tasks :
          /\ tasks[i].pc = "register"
          /\ tasks' = [tasks EXCEPT ![i].pc = "done",
                                    ![i].promise = "fulfilled"]
    /\ Release
    /\ UNCHANGED <<dataVars, tableVars, walkVars, histVars, clickVars, ops,
                   last, call, registryVars, selectionVars, toolbarVars>>

\* An await of the task rejects: the catch block of queue sets the status
\* line, the finally block follows, and the promise of queue is fulfilled.
TaskThrows ==
    /\ \E i \in RunningTasks :
          tasks' = [tasks EXCEPT ![i].pc = "failed",
                                 ![i].promise = "fulfilled"]
    /\ statusMessage' = "error"
    /\ Release
    /\ UNCHANGED <<dataVars, tableVars, walkVars, histVars, clickVars, ops,
                   last, call, registryVars, timers, propertiesUpdateTimer,
                   tableSelection, events, burst, staleShown, toolbarVars>>

\* ---------------------------------------------------------- the toolbar menus
Menus == {"classifier", "finder", "views"}

\* currentMenu = null
NoMenu == "<null>"

\* The items the toolbar holds for a menu.
ItemsOf(menu) ==
    IF menu = "classifier" THEN classifierItems
    ELSE IF menu = "finder" THEN finderItems
    ELSE viewItems

closeMenuKeepsPopup == [currentMenu |-> NoMenu, visible |-> TRUE]

\* closeMenu(): currentMenu = null; popup.classList.remove("visible").
closeMenu == [currentMenu |-> NoMenu, visible |-> FALSE]

\* renderMenu(items, title, emptyHint) with currentMenu = cur: the menu is
\* closed when there is none, else the title and the list are replaced.
renderMenu(cur, visible, menu, items) ==
    IF cur = NoMenu
    THEN [currentMenu |-> closeMenu.currentMenu, visible |-> closeMenu.visible,
          list |-> popupList]
    ELSE [currentMenu |-> cur, visible |-> visible,
          list |-> [title |-> menu, items |-> items]]

\* toggleMenu(menu, title, emptyHint, items)
toggleMenu(menu, items) ==
    IF currentMenu = menu /\ popupVisible
    THEN [currentMenu |-> closeMenu.currentMenu, visible |-> closeMenu.visible,
          list |-> popupList]
    ELSE renderMenu(menu, TRUE, menu, items)

\* A click on one of the three menu buttons of the toolbar; the click
\* handler of the document returns for a target inside the toolbar.
ClickMenuButton ==
    /\ \E menu \in Menus :
          \E r \in {toggleMenu(menu, ItemsOf(menu))} :
             /\ currentMenu' = r.currentMenu
             /\ popupVisible' = r.visible
             /\ popupList' = r.list
             /\ clickedMenu' = menu
    /\ UNCHANGED <<dataVars, tableVars, walkVars, histVars, clickVars, ops,
                   last, call, registryVars, selectionVars, loadVars,
                   itemActions>>

\* A click outside the popup and the toolbar: closeMenu().
ClickOutside ==
    /\ currentMenu' = closeMenu.currentMenu
    /\ popupVisible' = closeMenu.visible
    /\ clickedMenu' = NoMenu
    /\ UNCHANGED <<dataVars, tableVars, walkVars, histVars, clickVars, ops,
                   last, call, registryVars, selectionVars, loadVars,
                   popupList, itemActions>>

\* The items a menu can be given.
ItemSets(menu) ==
    IF menu = "classifier" THEN {{}, GroupLabels}
    ELSE IF menu = "finder" THEN {{}, FinderLabels}
    ELSE SUBSET Models

\* updateClassifier / updateFinder / updateViews and the handlers of
\* views.list: the items are replaced and the menu is rendered anew when it
\* is the current one.
UpdateItems ==
    /\ \E menu \in Menus : \E items \in ItemSets(menu) :
          /\ classifierItems' = IF menu = "classifier" THEN items
                                ELSE classifierItems
          /\ finderItems' = IF menu = "finder" THEN items ELSE finderItems
          /\ viewItems' = IF menu = "views" THEN items ELSE viewItems
          /\ \E r \in {IF currentMenu = menu
                       THEN renderMenu(currentMenu, popupVisible, menu, items)
                       ELSE [currentMenu |-> currentMenu,
                             visible |-> popupVisible,
                             list |-> popupList]} :
                /\ currentMenu' = r.currentMenu
                /\ popupVisible' = r.visible
                /\ popupList' = r.list
    /\ clickedMenu' = NoMenu
    /\ UNCHANGED <<dataVars, tableVars, walkVars, histVars, clickVars, ops,
                   last, call, selectionVars, loadVars, itemActions,
                   processedModels, classifierSelections, maps, sets,
                   classifierGroups, finderQueryRegistry, registrations,
                   started, setups, itemsSeen, isolated>>

\* A click on a button of the popup list: its action is awaited.
ClickItem ==
    /\ popupVisible
    /\ popupList.items # {}
    /\ itemActions < MaxItemActions
    /\ itemActions' = itemActions + 1
    /\ clickedMenu' = NoMenu
    /\ UNCHANGED <<dataVars, tableVars, walkVars, histVars, clickVars, ops,
                   last, call, registryVars, selectionVars, loadVars,
                   currentMenu, popupVisible, popupList>>

\* The action of an item has returned: closeMenu().
ItemActionReturns ==
    /\ itemActions > 0
    /\ itemActions' = itemActions - 1
    /\ currentMenu' = closeMenu.currentMenu
    /\ popupVisible' = closeMenu.visible
    /\ clickedMenu' = NoMenu
    /\ UNCHANGED <<dataVars, tableVars, walkVars, histVars, clickVars, ops,
                   last, call, registryVars, selectionVars, loadVars,
                   popupList>>

\* The action of an item has thrown: the menu is left as it is.
ItemActionThrows ==
    /\ itemActions > 0
    /\ itemActions' = itemActions - 1
    /\ clickedMenu' = NoMenu
    /\ UNCHANGED <<dataVars, tableVars, walkVars, histVars, clickVars, ops,
                   last, call, registryVars, selectionVars, loadVars,
                   currentMenu, popupVisible, popupList>>

\* -------------------------------------------------- waiting for child groups
ChildLoopRunsUnbounded(n) == TRUE

\* for (let attempt = 0; attempt < 40; attempt++)
ChildLoopRuns(n) == n < ChildWaitAttempts

\* waitForChildGroups is between two of its polls.
Polling == kind = "expandGroupsRecursive" /\ pc = "poll"

\* expandGroupsRecursive, one group up to the loop of waitForChildGroups: a
\* group without children data is passed over, another is opened and
\* waitForChildGroups begins.
ExpandGroupsOpen ==
    /\ kind = "expandGroupsRecursive"
    /\ InLoop
    /\ LET g == Current
       IN /\ visited' = Append(visited, g)
          /\ IF hasExpandableChildren(g)
             THEN /\ open' = ensureGroupOpened(open, g)
                  /\ toggled' = LogEnsure(open, g)
                  /\ everShown' = everShown
                                     \cup Materialized(ensureGroupOpened(open,
                                                                         g))
                  /\ pc' = "poll"
                  /\ attempts' = 0
                  /\ UNCHANGED stack
             ELSE /\ stack' = Advance(stack)
                  /\ UNCHANGED <<open, toggled, everShown, pc, attempts>>
    /\ UNCHANGED <<dataVars, expanded, kind, maxDepth, depthArg, found,
                   startOpen, startExpanded, appVars>>

\* One pass of the loop of waitForChildGroups: collectChildGroups, and
\* either the children are returned and the walk descends, or the update
\* and the delay are awaited.
PollChildGroups ==
    /\ Polling
    /\ ChildLoopRuns(attempts)
    /\ IF GroupsIn(open, Current) # <<>>
       THEN /\ stack' = Call(Advance(stack), open, Current, Top.depth + 1,
                             PastDepthLimit(Top.depth + 1, maxDepth))
            /\ pc' = "walk"
            /\ UNCHANGED attempts
       ELSE /\ attempts' = attempts + 1
            /\ UNCHANGED <<stack, pc>>
    /\ UNCHANGED <<dataVars, tableVars, kind, maxDepth, depthArg, found,
                   histVars, appVars>>

\* The loop of waitForChildGroups has run out: [] is returned and
\* expandGroupsRecursive goes on with the next group.
ChildWaitOver ==
    /\ Polling
    /\ ~ChildLoopRuns(attempts)
    /\ stack' = Advance(stack)
    /\ pc' = "walk"
    /\ UNCHANGED <<dataVars, tableVars, kind, maxDepth, depthArg, attempts,
                   found, histVars, appVars>>

\* The rendering boundary of the group being polled comes into being
\* during one of the delays.
BoundaryRenders ==
    /\ Polling
    /\ Current \in noBoundary
    /\ noBoundary' = noBoundary \ {Current}
    /\ UNCHANGED <<depthOf, nameOf, tableVars, walkVars, toggled, visited,
                   startOpen, startExpanded, appVars>>
    /\ everShown' = everShown \cup Materialized(open)'

\* ------------------------------------------------------------ specifications
InitState ==
    /\ depthOf = <<>>
    /\ nameOf = <<>>
    /\ expanded = FALSE
    /\ open = {}
    /\ kind = "none"
    /\ pc = "idle"
    /\ maxDepth = 0
    /\ depthArg = 0
    /\ stack = <<>>
    /\ attempts = 0
    /\ found = FALSE
    /\ toggled = <<>>
    /\ visited = <<>>
    /\ startOpen = {}
    /\ startExpanded = FALSE
    /\ everShown = {}
    /\ storeyDisabled = FALSE
    /\ running = 0
    /\ outcome = "none"
    /\ noBoundary = {}
    /\ ops = <<>>
    /\ last = NoLast
    /\ processedModels = {}
    /\ classifierSelections = [l \in GroupLabels |-> NoRef]
    /\ maps = <<>>
    /\ sets = <<>>
    /\ classifierGroups = [l \in GroupLabels |-> [m \in Models |-> {}]]
    /\ finderQueryRegistry = {}
    /\ classifierItems = {}
    /\ finderItems = {}
    /\ viewItems = {}
    /\ registrations = <<>>
    /\ started = 0
    /\ setups = [m \in Models |-> 0]
    /\ itemsSeen = [m \in Models |-> [l \in GroupLabels |-> {}]]
    /\ isolated = NoRef
    /\ timers = {}
    /\ propertiesUpdateTimer = NoTimer
    /\ tableSelection = EmptySelection
    /\ events = 0
    /\ burst = NoBurst
    /\ staleShown = FALSE
    /\ statusMessage = "none"
    /\ busy = FALSE
    /\ controls = [sample |-> FALSE, file |-> FALSE]
    /\ progress = [hidden |-> TRUE, value |-> 0]
    /\ tasks = <<>>
    /\ currentMenu = NoMenu
    /\ popupVisible = FALSE
    /\ popupList = [title |-> NoMenu, items |-> {}]
    /\ clickedMenu = NoMenu
    /\ itemActions = 0

InitTable == InitState /\ call = NoCall

NextDepth ==
    \/ SetData
    \/ UserToggle
    \/ UserSetExpanded
    \/ StartExpandPropertiesToLevel
    \/ PollData
    \/ DataWaitOver
    \/ ExpandToDepthVisit
    \/ StartExpandGroupsRecursive
    \/ ExpandGroupsVisit
    \/ StartExpandToStoreyRecursive
    \/ ExpandToStoreyVisit
    \/ WalkReturn
    \/ Settle

Next ==
    \/ SetAppData
    \/ ClickExpandStorey
    \/ StoreyCollapsePass
    \/ StoreySettle

Spec == InitTable /\ [][Next]_vars

SpecDepth == InitTable /\ [][NextDepth]_vars

NextStorey ==
    \/ SetNamedData
    \/ UserSetExpanded
    \/ StartExpandUntilStorey
    \/ PollData
    \/ StoreyWaitOver
    \/ ExpandUntilStoreyVisit
    \/ WalkReturn
    \/ Settle

SpecStorey == InitTable /\ [][NextStorey]_vars

\* Timers fire and awaited updates resolve: the predicate walk goes on.
StoreyStep ==
    \/ PollData
    \/ StoreyWaitOver
    \/ ExpandUntilStoreyVisit
    \/ WalkReturn
    \/ Settle

SpecStoreyLive == InitTable /\ [][NextStorey]_vars /\ WF_vars(StoreyStep)

NextWait ==
    \/ SetData
    \/ StartExpandPropertiesToLevel
    \/ PollData
    \/ DataWaitOver
    \/ ExpandToDepthVisit
    \/ WalkReturn
    \/ StartAnalyze
    \/ PollRootGroups
    \/ RootWaitOver
    \/ Settle

\* Timers fire and awaited promises resolve: a step of an operation in
\* progress is eventually taken.
OperationStep ==
    \/ PollData
    \/ DataWaitOver
    \/ ExpandToDepthVisit
    \/ WalkReturn
    \/ PollRootGroups
    \/ RootWaitOver
    \/ Settle

SpecWait == InitTable /\ [][NextWait]_vars /\ WF_vars(OperationStep)

\* The depth-bounded walks, each invoked once or twice in succession.
NextTwice ==
    \/ SetData
    \/ UserToggle
    \/ UserSetExpanded
    \/ StartExpandPropertiesToLevel
    \/ PollData
    \/ DataWaitOver
    \/ ExpandToDepthVisit
    \/ StartExpandGroupsRecursive
    \/ ExpandGroupsVisit
    \/ WalkReturn
    \/ WalkAgain
    \/ Settle

SpecTwice == InitTable /\ [][NextTwice]_vars

\* The depth-bounded walks over a table with missing boundaries.
NextBoundary ==
    \/ SetDataWithoutBoundaries
    \/ UserToggle
    \/ UserSetExpanded
    \/ StartExpandPropertiesToLevel
    \/ PollData
    \/ DataWaitOver
    \/ ExpandToDepthVisit
    \/ StartExpandGroupsRecursive
    \/ ExpandGroupsVisit
    \/ WalkReturn
    \/ Settle

SpecBoundary == InitTable /\ [][NextBoundary]_vars

\* Models are registered, classifier items are used.
NextRegistry ==
    \/ RegisterModelTools
    \/ CategoryGroupStep
    \/ ViewsCreated
    \/ ClassifierItemAction
    \/ IsolateReturns

SpecRegistry == InitTable /\ [][NextRegistry]_vars

\* Elements are selected and the selection is cleared.
NextSelection ==
    \/ Highlight
    \/ ClearSelection
    \/ Tick
    \/ TimerFires

SpecSelection == InitTable /\ [][NextSelection]_vars

\* IFC loads are triggered and run.
NextLoad ==
    \/ Queue
    \/ BufferReady
    \/ ProgressCallback
    \/ ModelLoaded
    \/ TaskFulfilled
    \/ TaskThrows

SpecLoad == InitTable /\ [][NextLoad]_vars

\* The toolbar is clicked and its menus are updated.
NextToolbar ==
    \/ ClickMenuButton
    \/ ClickOutside
    \/ UpdateItems
    \/ ClickItem
    \/ ItemActionReturns
    \/ ItemActionThrows

SpecToolbar == InitTable /\ [][NextToolbar]_vars

\* The depth walk with the polls of waitForChildGroups as steps of their own.
NextPoll ==
    \/ SetDataWithoutBoundaries
    \/ UserToggle
    \/ StartExpandGroupsRecursive
    \/ ExpandGroupsOpen
    \/ PollChildGroups
    \/ ChildWaitOver
    \/ BoundaryRenders
    \/ WalkReturn
    \/ Settle

\* Timers fire and awaited promises resolve: a step of the walk in progress
\* is eventually taken.
PollStep ==
    \/ ExpandGroupsOpen
    \/ PollChildGroups
    \/ ChildWaitOver
    \/ WalkReturn
    \/ Settle

SpecPoll == InitTable /\ [][NextPoll]_vars /\ WF_vars(PollStep)

\* The helpers, each applied to one argument.
NextHelpers ==
    \/ FindTableElementCall
    \/ DataNameCall
    \/ ActualDataNameCall

InitHelpers == InitState /\ InitCalls

SpecHelpers == InitHelpers /\ [][NextHelpers]_vars

\* The three controls of the spatial tree and the carets of its groups.
NextControls ==
    \/ SetTreeData
    \/ UserToggle
    \/ ClickExpandStorey
    \/ StoreyCollapsePass
    \/ StoreySettle
    \/ ClickExpandAll
    \/ ExpandAllStep
    \/ ClickCollapseAll
    \/ OpReturn
    \/ OpSettle

SpecControls == InitTable /\ [][NextControls]_vars

\* ---------------------------------------------------------------- properties
Shown == Materialized(open)

Returned == pc = "done"

\* The operation started from the fresh table: expanded false, nothing open.
StartedAllHidden == startOpen = {} /\ ~startExpanded

DepthWalk ==
    kind \in {"expandToDepth", "expandGroupsRecursive",
              "expandToStoreyRecursive"}

Max(a, b) == IF a >= b THEN a ELSE b

\* The number of levels a depth-bounded walk opens below the root container.
Levels ==
    CASE kind = "expandToDepth" -> maxDepth
      [] kind = "expandGroupsRecursive" -> Max(0, maxDepth - depthArg + 1)
      [] kind = "expandToStoreyRecursive" -> Max(1, maxDepth - depthArg + 1)
      [] OTHER -> 0

TreeABDEC == <<0, 1, 2, 2, 1>>

\* The walk of the scenario: walk(root, maxDepth) with groups counted from
\* depth 0 (expandToDepth), or from depth 1 under the guard depth > maxDepth.
ScenarioWalk ==
    \/ kind = "expandToDepth"
    \/ kind = "expandGroupsRecursive" /\ depthArg = 1

Targets == {k \in Nodes : IsStoreyName(nestedName(k))}

OneTarget == Cardinality(Targets) = 1

Target == CHOOSE k \in Targets : TRUE

Last(s) == s[Len(s)]

\* C3: with exactly one target group, the predicate walk ends in the step
\* that visits it: the target is the last group visited and toggled, no
\* group after it in document order (no later sibling of it or of one of
\* its ancestors, and nothing below it) is visited or toggled, and the
\* top-level call returns found.
C3_StopsAtTheMatch ==
    (kind = "expandUntilStorey" /\ OneTarget) =>
        /\ \A k \in Range(visited) \cup Range(toggled) : k <= Target
        /\ Target \in Range(visited) => (pc = "done" /\ stack = <<>> /\ found)
        /\ pc = "done" =>
              /\ found
              /\ Last(visited) = Target
              /\ Last(toggled) = Target

\* The walk has returned found while a branch after the match was left
\* unvisited.
C3_Witness ==
    /\ kind = "expandUntilStorey"
    /\ OneTarget
    /\ pc = "done"
    /\ found
    /\ depthOf[Target] > 0
    /\ \E k \in Nodes : k > Target /\ k \notin Descendants(Target)
                        /\ k \notin Range(visited)

\* The tree A -> [B(type X) -> [C(type TARGET) -> [D]]].
ChainDepths == <<0, 1, 2, 3>>

ChainNames == <<InstanceName, OtherTypeName, StoreyName, InstanceName>>

IsPrefix(s, t) == Len(s) <= Len(t) /\ s = SubSeq(t, 1, Len(s))

\* C4: on the chain A, B(X), C(TARGET), D, all hidden at the start, the
\* predicate walk toggles A, then B, then C and stops: when it returns D is
\* materialized, C is the last group toggled and nothing else was toggled.
C4_ChainScenario ==
    (/\ kind = "expandUntilStorey"
     /\ depthOf = ChainDepths
     /\ nameOf = ChainNames
     /\ StartedAllHidden) =>
        /\ IsPrefix(toggled, <<1, 2, 3>>)
        /\ pc = "done" =>
              /\ toggled = <<1, 2, 3>>
              /\ found
              /\ open = {1, 2, 3}
              /\ 4 \in Shown

C4_Witness ==
    /\ kind = "expandUntilStorey"
    /\ depthOf = ChainDepths
    /\ nameOf = ChainNames
    /\ StartedAllHidden
    /\ pc = "done"
    /\ toggled = <<1, 2, 3>>
    /\ 4 \in Shown

Waiting == pc \in {"wait", "waitRoots"}

ExpandingToStoreys == kind = "expandToStoreyLevel"

\* The IFCBUILDINGSTOREY type groups, their children (the storey instances)
\* and all that lies below a storey instance.
StoreyGroups == {k \in Nodes : IsStoreyName(groupName(k))}

StoreyInstances == UNION {Children(s) : s \in StoreyGroups}

BelowStoreys == UNION {Descendants(c) : c \in StoreyInstances}

\* A spatial structure as the viewer builds it: model and instance rows at
\* the even depths, IFC type groups at the odd ones, one per type under a
\* row.
SpatialStructure ==
    /\ \A k \in Nodes :
          /\ IsString(groupName(k))
          /\ startsWithIFC(groupName(k)) <=> depthOf[k] % 2 = 1
    /\ \A k, h \in Nodes :
          (/\ k # h
           /\ depthOf[k] % 2 = 1
           /\ Parent(k) = Parent(h)) => groupName(k) # groupName(h)

\* C5: during and after Expand To Storeys nothing below a storey instance
\* has been materialized.
C5_NothingBelowStoreysRendered ==
    (ExpandingToStoreys /\ StartedAllHidden /\ SpatialStructure) =>
        (everShown \cup Shown) \cap BelowStoreys = {}

\* C6: Expand To Storeys leaves table.expanded as it was when it started.
C6_ExpandedFlagUntouched ==
    ExpandingToStoreys => expanded = startExpanded

\* C7: after Expand To Storeys on a spatial structure with a storey group,
\* every storey group and its ancestors show their children and every
\* storey instance is materialized with its own children hidden.
C7_StoreysShownAndClosed ==
    (ExpandingToStoreys /\ pc = "done" /\ SpatialStructure) =>
        \A s \in StoreyGroups :
            /\ (Ancestors(s) \cup {s}) \subseteq open
            /\ \A c \in Children(s) : c \in Shown /\ c \notin open

\* C8: when the data has stayed empty, the operation has called no
\* toggleChildren, has not written table.expanded and returns normally.
C8_NoDataNoEffect ==
    (ExpandingToStoreys /\ Returning /\ DataMissing) =>
        /\ toggled = <<>>
        /\ expanded = startExpanded
        /\ pc = "done"

\* C10: at most one Expand To Storeys is in progress; the button is
\* disabled exactly while one is, and enabled again once its promise has
\* settled, fulfilled or rejected.
C10_SingleFlight ==
    /\ running <= 1
    /\ storeyDisabled <=> running = 1
    /\ ExpandingToStoreys <=> running = 1

\* An operation in progress behind the disabled button, started after an
\* earlier one was rejected.
C10_Witness ==
    /\ ExpandingToStoreys
    /\ pc = "rendering"
    /\ storeyDisabled
    /\ outcome = "rejected"

\* The calls of the three controls that have started and not yet returned.
InProgress ==
    (IF kind = "expandToStoreyLevel" /\ ~Returning THEN 1 ELSE 0)
    + Cardinality({i \in DOMAIN ops : ops[i].pc # "returned"})

\* C11: at no time are two of the operations started from the three
\* controls at work on the table's disclosure state.
C11_OneMutatorAtATime == InProgress <= 1

C19_CollapseAllClosesAll ==
    \A i \in DOMAIN ops :
        (ops[i].op = "collapseAll" /\ ops[i].alone /\ ops[i].pc = "returned")
            => /\ ~expanded
               /\ \A k \in open : ~hasExpandableChildren(k)
               /\ Shown = Roots

C13_SecondWalkChangesNothing ==
    (pc = "done" /\ last # NoLast) =>
        /\ open = last.open
        /\ Shown = Materialized(last.open)
        /\ expanded = last.expanded

\* The second invocation has returned after a first one that opened groups
\* of a table some of whose groups the user had opened before.
C13_Witness ==
    /\ pc = "done"
    /\ last # NoLast
    /\ toggled # <<>>
    /\ \E k \in open : depthOf[k] >= maxDepth /\ hasExpandableChildren(k)

NoTarget == kind = "expandUntilStorey" /\ Targets = {}

NoRepeat(q) == \A i, j \in DOMAIN q : q[i] = q[j] => i = j

\* C14: on a tree without a group named as the target the predicate walk
\* comes to an end, returns false, throws nothing and has called
\* toggleChildren at most once on each group.
C14_NoMatchNotFound ==
    /\ [](NoTarget => (~found /\ pc # "failed" /\ NoRepeat(toggled)))
    /\ (NoTarget ~> (NoTarget /\ Returning))

\* The walk has returned from a tree of type and instance groups, none of
\* them the target, after opening every group.
C14_Witness ==
    /\ NoTarget
    /\ pc = "done"
    /\ ~found
    /\ \E k \in Nodes : depthOf[k] = 2
    /\ \E k \in Nodes : nestedName(k) = OtherTypeName
    /\ Range(toggled) = Nodes

Called(f) == call.fn = f /\ call.result # Pending

HasTagBimTable(e) ==
    /\ IsObject(e)
    /\ e.tagName \notin {Absent, Nullish}
    /\ toLowerCase(e.tagName) = "bim-table"

\* The element the resolution order prefers.
Preferred(e) ==
    IF HasTagBimTable(e) THEN "input"
    ELSE IF IsObject(e) /\ e.querySelector = "nested" THEN "nested"
    ELSE IF IsObject(e) /\ e.shadowRoot = "shadowTable" THEN "shadowTable"
    ELSE "null"

DomLike(e) ==
    IsObject(e) =>
        /\ e.tagName \in {Absent, Nullish} \/ IsString(e.tagName)
        /\ e.querySelector # NotCallable

Carries(v) == v \notin {Absent, EmptyName}

\* The name the contract asks for: the nested one if there is one, else the
\* outer one, else the empty string.
MostSpecificName(d) ==
    IF ~d.present THEN EmptyName
    ELSE IF Carries(Nested(d, "Name")) THEN Nested(d, "Name")
    ELSE IF Carries(Nested(d, "name")) THEN Nested(d, "name")
    ELSE IF Carries(d.Name) THEN d.Name
    ELSE IF Carries(d.name) THEN d.name
    ELSE EmptyName

LaterSiblings(g) == {c \in Nodes : Parent(c) = Parent(g) /\ c > g}

C20_NeverRejected ==
    /\ pc # "failed"
    /\ outcome # "rejected"

ChecksBeforeToggle ==
    kind \in {"expandGroupsRecursive", "expandToStoreyRecursive"}

C23_SetUpOncePerModel ==
    /\ [](\A m \in Models : setups[m] <= 1)
    /\ [][(started' # started /\ processedModels' = processedModels) =>
             UNCHANGED <<classifierSelections, maps, sets,
                         finderQueryRegistry, classifierItems, finderItems,
                         viewItems, registrations>>]_vars

\* A second call for a model arrived while the first call for it was at an
\* await, and the model was set up once.
C23_Witness ==
    /\ \E i \in DOMAIN registrations :
          /\ registrations[i].group = 2
          /\ setups[registrations[i].model] = 1
    /\ Len(registrations) = 1
    /\ started = 2
    /\ Cardinality(processedModels) = 1

\* The ids classifierSelections holds for a label and a model.
Recorded(l, m) == IdsAt(Heap, classifierSelections[l], m)

HasEntry(l, m) ==
    /\ classifierSelections[l] # NoRef
    /\ maps[classifierSelections[l]][m] # NoSet

\* C30: classifierSelections holds for every label and model exactly the
\* ids the model's registration found, with an entry only where some were
\* found, whatever is done to the maps handed to hider.isolate; and no step
\* removes an id from it.
C30_SelectionsGrowUnaliased ==
    /\ [](\A l \in GroupLabels, m \in Models :
            /\ Recorded(l, m) = itemsSeen[m][l]
            /\ HasEntry(l, m) <=> itemsSeen[m][l] # {})
    /\ [][\A l \in GroupLabels, m \in Models :
            Recorded(l, m) \subseteq Recorded(l, m)']_vars

\* Two models are recorded under one label, a registered model has no entry
\* under a label it has no ids for, and hider.isolate holds a map for a
\* label that is another object than the one classifierSelections holds.
C30_Witness ==
    /\ isolated # NoRef
    /\ \A l \in GroupLabels : classifierSelections[l] # isolated
    /\ \E l \in GroupLabels :
          /\ \A m \in Models : HasEntry(l, m)
          /\ \A m \in Models :
                IdsAt(Heap, isolated, m) = Recorded(l, m)
    /\ \E g \in GroupLabels : \E m \in Models :
          /\ m \in viewItems
          /\ itemsSeen[m][g] = {}
          /\ ~HasEntry(g, m)

\* C24: at most one debounce timer is pending, updatePropertiesTable is
\* called at most once for a burst of highlight events, and when the timer
\* of the burst is no longer pending it was called once, with the selection
\* of the last event of the burst.
C24_LastOfBurstApplied ==
    /\ Cardinality(timers) <= 1
    /\ burst.calls <= 1
    /\ (burst.events > 0 /\ timers = {}) =>
          /\ burst.calls = 1
          /\ burst.shown = burst.last

\* A burst of two events with different selections is over.
C24_Witness ==
    /\ burst.events >= 2
    /\ burst.first # burst.last
    /\ burst.last # EmptySelection
    /\ timers = {}
    /\ burst.calls = 1
    /\ tableSelection = burst.last

\* C25: the properties table is never given, after a clear event, a
\* selection that was made before that event.
C25_NoSelectionAfterClear == ~staleShown


\* C26: at most one load task is in progress at any time; a call of queue
\* made while the guard is set starts nothing and changes nothing, and the
\* task it was given is never run afterwards.
C26_OneLoadAtATime ==
    /\ [](Cardinality(RunningTasks) <= 1)
    /\ [][(Len(tasks') > Len(tasks) /\ busy) =>
             /\ tasks'[Len(tasks')].pc = "dropped"
             /\ UNCHANGED <<busy, controls, progress, statusMessage>>]_vars
    /\ [][\A i \in DOMAIN tasks :
             tasks[i].pc = "dropped" => tasks'[i].pc = "dropped"]_vars

\* A load was triggered during another one, which has since completed.
C26_Witness ==
    \E i, j \in DOMAIN tasks :
       /\ i < j
       /\ tasks[i].pc = "done"
       /\ tasks[j].pc = "dropped"
       /\ ~busy

\* C27: the guard is set exactly while a task is in progress, the Load
\* button and the file input are disabled exactly while it is set, the
\* progress bar is hidden whenever it is not set, a task that throws leaves
\* the error message on the status line, and no promise of queue rejects.
C27_GuardAlwaysReleased ==
    /\ [](busy <=> RunningTasks # {})
    /\ [](controls.sample = busy /\ controls.file = busy)
    /\ [](~busy => progress.hidden)
    /\ [](\A i \in DOMAIN tasks : tasks[i].promise # "rejected")
    /\ [][\A i \in DOMAIN tasks :
             (tasks[i].pc # "failed" /\ tasks'[i].pc = "failed") =>
                /\ statusMessage' = "error"
                /\ tasks'[i].promise = "fulfilled"
                /\ ~busy']_vars

\* A task has thrown and a later one is in progress.
C27_Witness ==
    \E i, j \in DOMAIN tasks :
       /\ i < j
       /\ tasks[i].pc = "failed"
       /\ tasks[i].promise = "fulfilled"
       /\ tasks[j].pc = "load"
       /\ busy
       /\ ~progress.hidden

\* C29: the popup is visible exactly when a menu is the current one; a
\* click on the button of the current menu closes it, and a click on the
\* button of another menu makes that menu the current one with the popup
\* visible.
C29_PopupFollowsCurrentMenu ==
    /\ [](popupVisible <=> currentMenu # NoMenu)
    /\ [][clickedMenu' \in Menus =>
             IF currentMenu = clickedMenu'
             THEN currentMenu' = NoMenu /\ ~popupVisible'
             ELSE currentMenu' = clickedMenu' /\ popupVisible']_vars

\* A menu with items was opened by its button while an item's action is
\* still awaited.
C29_Witness ==
    /\ clickedMenu = "finder"
    /\ currentMenu = "finder"
    /\ popupVisible
    /\ popupList = [title |-> "finder", items |-> FinderLabels]
    /\ itemActions > 0


\* The walk of expandGroupsRecursive has not settled.
PollWalk == kind = "expandGroupsRecursive"

\* C28: waitForChildGroups polls at most 40 times for one group, a group
\* without children data is passed over without a poll, when the polls run
\* out the walk goes on with the next sibling, and the walk always comes to
\* an end.
C28_WalkEndsWithoutChildren ==
    /\ [](Polling => attempts <= ChildWaitAttempts)
    /\ [][(PollWalk /\ InLoop /\ ~hasExpandableChildren(Current)) =>
             pc' # "poll" /\ attempts' = attempts]_vars
    /\ [][(Polling /\ attempts = ChildWaitAttempts /\ pc' # "poll") =>
             pc' = "walk" /\ stack' = Advance(stack)]_vars
    /\ (PollWalk ~> ~PollWalk)

\* The polls for a group whose children never came have run out and the
\* walk has inspected a later sibling.
C28_Witness ==
    /\ PollWalk
    /\ attempts = ChildWaitAttempts
    /\ \E g \in noBoundary \cap Range(visited) :
          /\ g \in open
          /\ LaterSiblings(g) \cap Range(visited) # {}

====
